---- MODULE Spec2Model ----
(***************************************************************************)
(* Agent-to-agent (A2A) messaging core of algent: the message envelope,    *)
(* the SecurityContext gate, the per-agent A2AClient (publish, inbound     *)
(* loop) and the Agent's task request/response correlation                 *)
(* (send_task_to_agent).                                                   *)
(*                                                                         *)
(* Time is counted in ticks of the caller's poll interval                  *)
(* (asyncio.sleep(0.1)) and kept relative: a call carries the time elapsed *)
(* since its start_time, a rate-limit entry the age of its timestamp.      *)
(* Every coroutine step between two awaits is one action.                  *)
(***************************************************************************)
EXTENDS Integers, Sequences, FiniteSets, TLC

\* ---------------------------------------------------------------- bounds
MaxCalls == 1
MaxInbox == 2
MaxInject == 1
Timeout == 2
MaxRequests == 1
WindowTicks == 2
MaxSends == 2
MaxConcurrent == 2
MaxTasks == 2

\* asyncio.sleep(0.1): one poll interval is the unit of time
PollTicks == 1

\* ---------------------------------------------------------------- identities
Agents == {"a", "b"}
Outsider == "x"
Senders == Agents \cup {Outsider}

\* capabilities given to the Agent constructor
Capabilities == [a |-> {"add"}, b |-> {"echo"}]
TaskTypes == {"add", "echo"}
Results == {"r1", "r2"}
ExecError == "boom"

\* ---------------------------------------------------------------- envelope
MessageType ==
    {"task_request", "task_response", "capability_announcement",
     "capability_query", "capability_response", "status_update", "error"}

NoId == 0
NoCaps == {}

\* The payload dict; a key that is absent reads as its null value
\* (dict.get returns None).
Payload(task_id, task_type, success, result, error, caps) ==
    [task_id |-> task_id, task_type |-> task_type, success |-> success,
     result |-> result, error |-> error, capabilities |-> caps]

RequestPayload(task_id, task_type) ==
    Payload(task_id, task_type, FALSE, "", "", NoCaps)

ResponsePayload(task_id, success, result, error) ==
    Payload(task_id, "", success, result, error, NoCaps)

CapsPayload(caps) == Payload(NoId, "", FALSE, "", "", caps)

\* A2AMessage: signature is None until _prepare_message signs
NoSignature == [form |-> "none", signer |-> "", digest |-> <<>>]
EmptySignature == [form |-> "empty", signer |-> "", digest |-> <<>>]
ForgedSignature == [form |-> "value", signer |-> Outsider, digest |-> <<>>]

\* datetime.utcnow().isoformat(): some non-empty string
UtcNow == "utcnow"

NoTimestamp == ""

A2AMessage(sender, recipient, kind, ts, payload, rr) ==
    [sender_id |-> sender, recipient_id |-> recipient, message_type |-> kind,
     timestamp |-> ts, payload |-> payload, requires_response |-> rr,
     signature |-> NoSignature]

\* bytes on the wire that A2AMessage.parse_raw rejects
Garbage ==
    [sender_id |-> "", recipient_id |-> "", message_type |-> "garbage",
     timestamp |-> NoTimestamp, payload |-> CapsPayload(NoCaps),
     requires_response |-> FALSE, signature |-> NoSignature]

parse_raw_ok(m) == m.message_type \in MessageType

\* ---------------------------------------------------------------- SecurityContext
\* json.dumps(message_data, sort_keys=True): the signed fields
message_data(m) ==
    <<m.sender_id, m.recipient_id, m.message_type, m.timestamp, m.payload>>

\* private_key.sign(...) with the key of the signing agent
sign_message(key, m) ==
    [form |-> "value", signer |-> key, digest |-> message_data(m)]

\* what a genuine check of the signature against the claimed sender's key is
GenuineSignature(m) ==
    /\ m.signature.form = "value"
    /\ m.sender_id \in Agents
    /\ m.signature = sign_message(m.sender_id, m)

\* the same routine without its test for a missing signature
verify_message_signature_NoCheck(m) == TRUE

verify_message_signature(m) ==
    IF m.signature.form \in {"none", "empty"} THEN FALSE ELSE TRUE

is_trusted_agent(agent_id) == TRUE


\* ---------------------------------------------------------------- RateLimiter
RECURSIVE Concat(_, _)
Concat(reqs, keys) ==
    IF keys = {} THEN <<>>
    ELSE LET k == CHOOSE x \in keys : TRUE
         IN  reqs[k] \o Concat(reqs, keys \ {k})

\* one list for all identifiers: the timestamps kept for anyone
Stored_Shared(reqs, identifier) == Concat(reqs, DOMAIN reqs)

\* the timestamps kept for identifier, [] when the key is new
Stored(reqs, identifier) ==
    IF identifier \in DOMAIN reqs THEN reqs[identifier] ELSE <<>>

\* a timestamp exactly window_seconds old kept: req_time >= window_start
Fresh_Inclusive(age) == age <= WindowTicks

\* req_time > window_start, with age = now - req_time and
\* window_start = now - window_seconds
Fresh(age) == age < WindowTicks

\* the list comprehension that drops the stale timestamps
Pruned(reqs, identifier) == SelectSeq(Stored(reqs, identifier), Fresh)

\* a call let through when the list is already full
UnderLimit_Inclusive(n) == n <= MaxRequests

\* len(self._requests[identifier]) < self.max_requests
UnderLimit(n) == n < MaxRequests

\* the value is_allowed returns
is_allowed(reqs, identifier) == UnderLimit(Len(Pruned(reqs, identifier)))

\* self._requests after is_allowed(identifier); the timestamp appended is now
is_allowed_requests(reqs, identifier) ==
    [k \in DOMAIN reqs \cup {identifier} |->
        IF k = identifier
        THEN IF is_allowed(reqs, identifier)
             THEN Append(Pruned(reqs, identifier), 0)
             ELSE Pruned(reqs, identifier)
        ELSE reqs[k]]


\* ---------------------------------------------------------------- state
VARIABLES
    inbox,       \* per agent: messages its pubsub subscription has not yet yielded
    a2a_client,  \* per agent: "none" before initialize, "up" once subscribed and listening
    handlers,    \* per agent: A2AClient.handlers, message type -> handler
    running,     \* per agent: Agent._running
    memory,      \* per agent: AgentMemory._memory, task id -> stored response payload
    tasks,       \* per agent: Agent._tasks
    requests,    \* per agent: RateLimiter._requests, sender -> ages of the accepted timestamps
    loop,        \* per agent: where _listen_for_messages is (idle, or inside execute_task)
    call,        \* per call: one send_task_to_agent invocation
    nextId,      \* number of task ids issued so far (uuid4 never repeats)
    injected,    \* number of messages published or altered by parties other than the agents
    last,        \* per agent: the branch the inbound loop took for the last message
    firstResp,   \* per task id: the first TaskResponse its caller's agent handled
    executed,    \* per task id: the result execute_task returned for the request
    api,         \* the last call an application made on an A2AClient itself, and how many so far
    ran,         \* per agent: the handler invoked for the last message taken, "" if none
    check,       \* the last call made on check_rate_limit itself, and who was ever refused
    registered,  \* per agent and message type: the handler last passed to register_handler
    life,        \* per agent: where its initialize coroutine is, and how its last shutdown ended
    reachable,   \* whether the Redis server answers
    lost,        \* per task id: a TaskResponse for it was refused by the rate limiter of its caller's agent
    active_agents,  \* the gateway's registry: agent id -> agent type
    task_results,   \* the gateway's task table: task id -> TaskResponse
    jobs,           \* per gateway task id: where its background execution is
    http         \* the last answer of the gateway to create_agent or submit_task

\* what belongs to an application that uses an A2AClient, or a
\* SecurityContext, without an Agent
appvars == <<api, ran, check, registered>>

\* the stepwise life cycle of an agent on a transport that can fail
lifevars == <<life, reachable>>

\* the HTTP gateway (api_server.py)
gateway == <<active_agents, task_results, jobs, http>>

\* the agents and their message bus
busvars == <<inbox, a2a_client, handlers, running, memory, tasks, requests,
             loop, call, nextId, injected, last, firstResp, executed, appvars,
             lifevars, lost>>

vars == <<inbox, a2a_client, handlers, running, memory, tasks, requests,
          loop, call, nextId, injected, last, firstResp, executed, appvars,
          lifevars, lost, gateway>>

\* one slot per send_task_to_agent invocation that any specification makes
Calls == 1..(IF MaxCalls > MaxConcurrent THEN MaxCalls ELSE MaxConcurrent)

NoMessage == Garbage

\* elapsed: event loop time() - start_time; sleep: what is left of
\* asyncio.sleep; inside: the call is awaited by execute_task of its owner
IdleCall ==
    [owner |-> "", recipient |-> "", task_type |-> "", timeout |-> 0,
     elapsed |-> 0, sleep |-> 0, pc |-> "idle", ret |-> CapsPayload(NoCaps),
     inside |-> FALSE]

NoResp == [handled |-> FALSE, at |-> 0, payload |-> CapsPayload(NoCaps)]

NoCall == [calls |-> 0, by |-> "", op |-> "none", arg |-> NoMessage]

\* odd: whether the number of calls so far is odd
NoCheck == [odd |-> FALSE, by |-> "", identifier |-> "", result |-> FALSE,
            refused |-> {}]

\* init: "none" before initialize is called, then the await it is suspended
\* at ("ping", "subscribe", "announce"), then "returned" or "raised";
\* shutdown: "none" before shutdown is called, then "returned" or "raised"
NewAgent == [init |-> "none", shutdown |-> "none"]

\* odd: whether the number of requests answered so far is odd
NoAnswer ==
    [odd |-> FALSE, op |-> "none", status |-> 0, agent_id |-> "",
     agent_type |-> "", task_id |-> 0]

Init ==
    /\ inbox = [a \in Agents |-> <<>>]
    /\ a2a_client = [a \in Agents |-> "none"]
    /\ handlers = [a \in Agents |-> <<>>]
    /\ running = [a \in Agents |-> FALSE]
    /\ memory = [a \in Agents |-> <<>>]
    /\ tasks = [a \in Agents |-> {}]
    /\ requests = [a \in Agents |-> <<>>]
    /\ loop = [a \in Agents |-> [pc |-> "idle", msg |-> NoMessage]]
    /\ call = [c \in Calls |-> IdleCall]
    /\ nextId = 0
    /\ injected = 0
    /\ last = [a \in Agents |-> "none"]
    /\ firstResp = [c \in Calls |-> NoResp]
    /\ executed = [c \in Calls |-> ""]
    /\ api = NoCall
    /\ ran = [a \in Agents |-> ""]
    /\ check = NoCheck
    /\ registered = [a \in Agents |-> <<>>]
    /\ life = [a \in Agents |-> NewAgent]
    /\ reachable = TRUE
    /\ lost = [c \in Calls |-> FALSE]
    /\ active_agents = <<>>
    /\ task_results = <<>>
    /\ jobs = <<>>
    /\ http = NoAnswer

\* ---------------------------------------------------------------- transport
BroadcastChannel == "agentic:broadcast"

AgentChannel(agent_id) == "agentic:agent:" \o agent_id

\* every envelope published on the channel named after its recipient_id
TargetChannel_NoBroadcast(m) == AgentChannel(m.recipient_id)

\* send_message: "Determine target channel"
TargetChannel(m) ==
    IF m.recipient_id = "*" THEN BroadcastChannel ELSE AgentChannel(m.recipient_id)

\* initialize: pubsub.subscribe(agent_channel, broadcast_channel)
Subscriptions(a) == {AgentChannel(a), BroadcastChannel}

\* the agents whose subscription receives a publish on channel, given who is up
Subscribers(up, channel) == {a \in Agents : up[a] = "up" /\ channel \in Subscriptions(a)}

HasRoom(box, targets) == \A a \in targets : Len(box[a]) < MaxInbox

\* redis publish: one copy to every current subscriber, nothing kept for the others
Publish(box, targets, m) ==
    [a \in Agents |-> IF a \in targets THEN Append(box[a], m) ELSE box[a]]

\* ---------------------------------------------------------------- A2AClient
StampSender(a, m) ==
    IF m.sender_id = "" THEN [m EXCEPT !.sender_id = a] ELSE m

StampTime(m) ==
    IF m.timestamp = NoTimestamp THEN [m EXCEPT !.timestamp = UtcNow] ELSE m

\* the signature made first, sender and timestamp stamped afterwards
prepare_message_SignFirst(a, m) ==
    [StampTime(StampSender(a, m)) EXCEPT !.signature = sign_message(a, m)]

prepare_message(a, m) ==
    LET stamped == StampTime(StampSender(a, m))
    IN  [stamped EXCEPT !.signature = sign_message(a, stamped)]

\* the loop without its test for the agent's own messages
OwnMessage_Never(a, m) == FALSE

\* "Skip our own messages"
OwnMessage(a, m) == m.sender_id = a

\* _validate_message reaches the rate limiter only past the first two checks
ReachesRateLimit(m) ==
    /\ verify_message_signature(m)
    /\ is_trusted_agent(m.sender_id)

\* the rate limiter asked for requests only, a TaskResponse let through
validate_message_ResponsesExempt(a, m) ==
    /\ ReachesRateLimit(m)
    /\ m.message_type = "task_response" \/ is_allowed(requests[a], m.sender_id)

validate_message(a, m) ==
    /\ ReachesRateLimit(m)
    /\ is_allowed(requests[a], m.sender_id)

\* the rate limiter consulted before the signature and trust checks
validate_message_requests_RateFirst(a, m) ==
    is_allowed_requests(requests[a], m.sender_id)

\* RateLimiter._requests of agent a after _validate_message(m)
validate_message_requests(a, m) ==
    IF ReachesRateLimit(m)
    THEN is_allowed_requests(requests[a], m.sender_id)
    ELSE requests[a]

\* handlers.get(message_type)
HasHandler(a, m) == m.message_type \in DOMAIN handlers[a]

\* ---------------------------------------------------------------- Agent
\* Agent._register_message_handlers
RegisteredHandlers ==
    [k \in {"task_request", "task_response", "capability_query"} |->
        CASE k = "task_request" -> "_handle_task_request"
          [] k = "task_response" -> "_handle_task_response"
          [] k = "capability_query" -> "_handle_capability_query"]

\* the announcement built by _announce_capabilities and sent by broadcast_message
Announcement(a) ==
    LET m == A2AMessage(a, "*", "capability_announcement", UtcNow,
                        CapsPayload(Capabilities[a]), FALSE)
    IN  prepare_message(a, [m EXCEPT !.recipient_id = "*"])

\* Agent.initialize, when the transport is reachable: connect, subscribe both
\* channels, start the inbound loop, register the handlers, announce, go live.
Initialize(a) ==
    /\ a2a_client[a] = "none"
    /\ LET up == [a2a_client EXCEPT ![a] = "up"]
           m == Announcement(a)
           targets == Subscribers(up, TargetChannel(m))
       IN  /\ HasRoom(inbox, targets)
           /\ inbox' = Publish(inbox, targets, m)
           /\ a2a_client' = up
    /\ handlers' = [handlers EXCEPT ![a] = RegisteredHandlers]
    /\ registered' = [registered EXCEPT ![a] = RegisteredHandlers]
    /\ running' = [running EXCEPT ![a] = TRUE]
    /\ life' = [life EXCEPT ![a].init = "returned"]
    /\ UNCHANGED <<memory, tasks, requests, loop, call, nextId, injected,
                   last, firstResp, executed, api, ran, check,
                   reachable, lost, gateway>>

\* memory.store(f"task_response_{task_id}", payload)
store(mem, key, value) ==
    [k \in DOMAIN mem \cup {key} |-> IF k = key THEN value ELSE mem[k]]

\* memory.retrieve(...) found something
Retrieved(mem, key) == key \in DOMAIN mem

\* the loop left one poll interval early
LoopCondition_OffByOne(elapsed, timeout) == elapsed + PollTicks < timeout

\* the while condition of send_task_to_agent: time() - start_time < timeout
LoopCondition(elapsed, timeout) == elapsed < timeout

\* whatever response is stored returned, not the one with the call's task id
WaitStep_AnyResponse(c, rec, mem) ==
    IF rec.elapsed < rec.timeout
    THEN IF DOMAIN mem # {}
         THEN [rec EXCEPT !.pc = "returned",
                          !.ret = mem[CHOOSE k \in DOMAIN mem : k # c \/ DOMAIN mem = {c}]]
         ELSE [rec EXCEPT !.pc = "wait", !.sleep = PollTicks]
    ELSE [rec EXCEPT !.pc = "timeout"]

\* One pass of the wait loop of call c: return the stored response, sleep one
\* poll interval, or leave the loop and raise TimeoutError.
WaitStep(c, rec, mem) ==
    IF LoopCondition(rec.elapsed, rec.timeout)
    THEN IF Retrieved(mem, c)
         THEN [rec EXCEPT !.pc = "returned", !.ret = mem[c]]
         ELSE [rec EXCEPT !.pc = "wait", !.sleep = PollTicks]
    ELSE [rec EXCEPT !.pc = "timeout"]

TaskRequest(a, recipient_id, task_id, task_type) ==
    A2AMessage(a, recipient_id, "task_request", UtcNow,
               RequestPayload(task_id, task_type), TRUE)

\* send_task_to_agent on an agent whose a2a_client is None: RuntimeError
StartCallUninitialized(a, recipient_id, task_type) ==
    /\ nextId < MaxCalls
    /\ a2a_client[a] = "none"
    /\ nextId' = nextId + 1
    /\ call' = [call EXCEPT ![nextId + 1] =
                   [IdleCall EXCEPT !.owner = a, !.recipient = recipient_id,
                                    !.task_type = task_type, !.pc = "error"]]
    /\ UNCHANGED <<inbox, a2a_client, handlers, running, memory, tasks,
                   requests, loop, injected, last, firstResp, executed, appvars,
                   lifevars, lost, gateway>>

\* send_task_to_agent up to its first sleep: fresh task id, publish the
\* request, take start_time, first pass of the wait loop.
send_task_to_agent(a, recipient_id, task_type, inside) ==
    /\ a2a_client[a] = "up"
    /\ LET c == nextId + 1
           m == prepare_message(a, TaskRequest(a, recipient_id, c, task_type))
           targets == Subscribers(a2a_client, TargetChannel(m))
           rec == [IdleCall EXCEPT !.owner = a, !.recipient = recipient_id,
                                   !.task_type = task_type, !.timeout = Timeout,
                                   !.inside = inside]
       IN  /\ HasRoom(inbox, targets)
           /\ inbox' = Publish(inbox, targets, m)
           /\ call' = [call EXCEPT ![c] = WaitStep(c, rec, memory[a])]
    /\ nextId' = nextId + 1
    /\ UNCHANGED <<a2a_client, handlers, running, memory, tasks, requests,
                   loop, injected, last, firstResp, executed, appvars,
                   lifevars, lost, gateway>>

\* a call made by the application, from outside any handler
StartCall(a, recipient_id, task_type) ==
    /\ nextId < MaxCalls
    /\ send_task_to_agent(a, recipient_id, task_type, FALSE)

\* a call made while earlier calls of the application may still be waiting
StartCallConcurrent(a, recipient_id, task_type) ==
    /\ nextId < MaxConcurrent
    /\ send_task_to_agent(a, recipient_id, task_type, FALSE)

\* send_task_to_agent awaited by execute_task, that is from inside the
\* TaskRequest handler the inbound loop of agent a is running
StartCallInside(a, recipient_id, task_type) ==
    /\ nextId < MaxCalls
    /\ loop[a].pc = "exec"
    /\ send_task_to_agent(a, recipient_id, task_type, TRUE)

\* asyncio.sleep(0.1) is over: next pass of the loop
Poll(c) ==
    /\ call[c].pc = "wait"
    /\ call[c].sleep = 0
    /\ call' = [call EXCEPT ![c] = WaitStep(c, call[c], memory[call[c].owner])]
    /\ UNCHANGED <<inbox, a2a_client, handlers, running, memory, tasks,
                   requests, loop, nextId, injected, last, firstResp, executed, appvars,
                   lifevars, lost, gateway>>

\* ---------------------------------------------------------------- inbound loop
\* the message taken was not given to a handler
NoHandlerRan(a) == ran' = [ran EXCEPT ![a] = ""]

\* an exception anywhere in the loop body ends the loop
LoopAfter_Fatal(outcome) ==
    IF outcome \in {"parse_error", "handler_error"} THEN "stopped" ELSE "idle"

\* Where the loop is once a message has been disposed of: the "continue"s and
\* the except clauses are inside the "async for", and _handle_message catches
\* what a handler raises, so the loop takes the next message.
LoopAfter(outcome) == "idle"

\* m is a TaskResponse for a waiting call of agent a that a's rate limiter refuses
LosesResponse(a, m) ==
    /\ m.message_type = "task_response"
    /\ ReachesRateLimit(m)
    /\ ~is_allowed(requests[a], m.sender_id)
    /\ m.payload.task_id \in Calls
    /\ call[m.payload.task_id].owner = a
    /\ call[m.payload.task_id].pc = "wait"

\* the loop's "continue" and except branches: the message is logged and dropped
Dropped(a, outcome, reqs) ==
    /\ inbox' = [inbox EXCEPT ![a] = Tail(@)]
    /\ lost' = IF outcome = "invalid" /\ LosesResponse(a, Head(inbox[a]))
               THEN [lost EXCEPT ![Head(inbox[a]).payload.task_id] = TRUE]
               ELSE lost
    /\ requests' = [requests EXCEPT ![a] = reqs]
    /\ last' = [last EXCEPT ![a] = outcome]
    /\ loop' = [loop EXCEPT ![a].pc = LoopAfter(outcome)]
    /\ UNCHANGED <<memory, tasks, firstResp>> /\ NoHandlerRan(a)

\* the first TaskResponse handled by the agent that waits for the task id
NotesFirst(a, task_id) ==
    /\ task_id \in Calls
    /\ call[task_id].owner = a
    /\ call[task_id].pc # "idle"
    /\ ~firstResp[task_id].handled

\* Agent._handle_task_response
handle_task_response(a, m) ==
    /\ memory' = [memory EXCEPT ![a] = store(@, m.payload.task_id, m.payload)]
    /\ firstResp' = IF NotesFirst(a, m.payload.task_id)
                    THEN [firstResp EXCEPT ![m.payload.task_id] =
                             [handled |-> TRUE,
                              at |-> call[m.payload.task_id].elapsed,
                              payload |-> m.payload]]
                    ELSE firstResp
    /\ inbox' = [inbox EXCEPT ![a] = Tail(@)]
    /\ UNCHANGED <<tasks, loop>>

\* the message _send_task_response builds and send_message signs
TaskResponse(a, recipient_id, task_id, success, result, error) ==
    prepare_message(a,
        A2AMessage(a, recipient_id, "task_response", UtcNow,
                   ResponsePayload(task_id, success, result, error), FALSE))

\* send_message from inside a handler of agent a, which has just taken the
\* head of its own inbox
Reply(a, m) ==
    LET rest == [inbox EXCEPT ![a] = Tail(@)]
        targets == Subscribers(a2a_client, TargetChannel(m))
    IN  /\ HasRoom(rest, targets)
        /\ inbox' = Publish(rest, targets, m)

\* Agent._handle_capability_query
handle_capability_query(a, m) ==
    /\ Reply(a, prepare_message(a,
           A2AMessage(a, m.sender_id, "capability_response", UtcNow,
                      CapsPayload(Capabilities[a]), FALSE)))
    /\ UNCHANGED <<memory, tasks, loop, firstResp>>

\* every task type taken as supported
Supported_Any(a, task_type) == TRUE

\* task_type in self.capabilities
Supported(a, task_type) == task_type \in Capabilities[a]

NotSupportedError(task_type) == "Capability '" \o task_type \o "' not supported"

\* Agent._handle_task_request up to the await of execute_task
handle_task_request(a, m) ==
    IF ~Supported(a, m.payload.task_type)
    THEN /\ Reply(a, TaskResponse(a, m.sender_id, m.payload.task_id, FALSE, "",
                                  NotSupportedError(m.payload.task_type)))
         /\ UNCHANGED <<memory, tasks, loop, firstResp>>
    ELSE /\ tasks' = [tasks EXCEPT ![a] = @ \cup {m.payload.task_id}]
         /\ loop' = [loop EXCEPT ![a] = [pc |-> "exec", msg |-> m]]
         /\ inbox' = [inbox EXCEPT ![a] = Tail(@)]
         /\ UNCHANGED <<memory, firstResp>>

\* the application's handlers: one that returns, one that raises
ReturningHandler == "on_status"
RaisingHandler == "on_status_raising"
ApplicationHandlers == {ReturningHandler, RaisingHandler}

\* a handler that is the application's own: whether it returns or raises
\* (_handle_message logs the exception), the client's state is as before
application_handler(a, handler, m) ==
    /\ inbox' = [inbox EXCEPT ![a] = Tail(@)]
    /\ loop' = [loop EXCEPT ![a].pc =
                    LoopAfter(IF handler = RaisingHandler
                              THEN "handler_error" ELSE "handled")]
    /\ UNCHANGED <<memory, tasks, firstResp>>

\* A2AClient._handle_message
handle_message(a, m) ==
    IF ~HasHandler(a, m)
    THEN /\ inbox' = [inbox EXCEPT ![a] = Tail(@)]
         /\ last' = [last EXCEPT ![a] = "no_handler"]
         /\ UNCHANGED <<memory, tasks, loop, firstResp>> /\ NoHandlerRan(a)
    ELSE /\ last' = [last EXCEPT ![a] = "dispatched"]
         /\ ran' = [ran EXCEPT ![a] = handlers[a][m.message_type]]
         /\ CASE handlers[a][m.message_type] = "_handle_task_request" ->
                     handle_task_request(a, m)
              [] handlers[a][m.message_type] = "_handle_task_response" ->
                     handle_task_response(a, m)
              [] handlers[a][m.message_type] = "_handle_capability_query" ->
                     handle_capability_query(a, m)
              [] OTHER ->
                     application_handler(a, handlers[a][m.message_type], m)

\* every handler run as a task of its own, the loop free at once
AwaitsMessage_Always(pc) == TRUE

\* the loop is at "async for": "await self._handle_message(...)" has
\* returned, so no handler is running
AwaitsMessage(pc) == pc = "idle"

\* One pass of the body of "async for message in self.pubsub.listen()"
Listen(a) ==
    /\ a2a_client[a] = "up"
    /\ AwaitsMessage(loop[a].pc)
    /\ inbox[a] # <<>>
    /\ LET m == Head(inbox[a])
       IN  IF ~parse_raw_ok(m)
           THEN Dropped(a, "parse_error", requests[a])
           ELSE IF OwnMessage(a, m)
           THEN Dropped(a, "own", requests[a])
           ELSE IF ~validate_message(a, m)
           THEN Dropped(a, "invalid", validate_message_requests(a, m))
           ELSE /\ requests' = [requests EXCEPT ![a] = validate_message_requests(a, m)]
                /\ handle_message(a, m)
                /\ UNCHANGED lost
    /\ UNCHANGED <<a2a_client, handlers, running, call, nextId, injected,
                   executed, api, check, registered,
                   lifevars, gateway>>

\* execute_task of agent a is not awaiting a send_task_to_agent call
NothingAwaited(a) ==
    \A c \in Calls : (call[c].inside /\ call[c].owner = a) => call[c].pc # "wait"

\* the task id left in the set
discard_Never(ts, task_id) == ts

\* finally: self._tasks.discard(task_id)
discard(ts, task_id) == ts \ {task_id}

\* execute_task returned or raised: the rest of _handle_task_request
FinishTask(a, outcome) ==
    /\ loop[a].pc = "exec"
    /\ NothingAwaited(a)
    /\ LET m == loop[a].msg
           id == m.payload.task_id
           ok == outcome \in Results
           resp == IF ok
                   THEN TaskResponse(a, m.sender_id, id, TRUE, outcome, "")
                   ELSE TaskResponse(a, m.sender_id, id, FALSE, "", outcome)
           targets == Subscribers(a2a_client, TargetChannel(resp))
       IN  /\ HasRoom(inbox, targets)
           /\ inbox' = Publish(inbox, targets, resp)
           /\ tasks' = [tasks EXCEPT ![a] = discard(@, id)]
           /\ executed' = IF ok /\ id \in Calls /\ executed[id] = ""
                          THEN [executed EXCEPT ![id] = outcome]
                          ELSE executed
    /\ loop' = [loop EXCEPT ![a] = [pc |-> "idle", msg |-> NoMessage]]
    /\ UNCHANGED <<a2a_client, handlers, running, memory, requests, call,
                   nextId, injected, last, firstResp, appvars,
                   lifevars, lost, gateway>>

\* str(e) of the exception redis_client.publish raises
PublishError == "publish failed"

\* execute_task returned or raised and the publish of the response raises.
\* After a normal return the exception lands in the inner except clause,
\* which sends a failure response carrying str(e); that second publish
\* raises as well (again) or goes through. After execute_task raised, the
\* exception leaves the except clause and is logged by the outer one.
FinishTaskPublishFails(a, outcome, again) ==
    /\ loop[a].pc = "exec"
    /\ NothingAwaited(a)
    /\ LET m == loop[a].msg
           id == m.payload.task_id
           ok == outcome \in Results
           resp == TaskResponse(a, m.sender_id, id, FALSE, "", PublishError)
           targets == IF ok /\ ~again
                      THEN Subscribers(a2a_client, TargetChannel(resp))
                      ELSE {}
       IN  /\ HasRoom(inbox, targets)
           /\ inbox' = Publish(inbox, targets, resp)
           /\ tasks' = [tasks EXCEPT ![a] = discard(@, id)]
           /\ executed' = IF ok /\ id \in Calls /\ executed[id] = ""
                          THEN [executed EXCEPT ![id] = outcome]
                          ELSE executed
    /\ loop' = [loop EXCEPT ![a] = [pc |-> "idle", msg |-> NoMessage]]
    /\ UNCHANGED <<a2a_client, handlers, running, memory, requests, call,
                   nextId, injected, last, firstResp, appvars,
                   lifevars, lost, gateway>>

\* ---------------------------------------------------------------- application
\* An application that drives an A2AClient itself: it connects the client,
\* registers handlers of its own and sends envelopes it has built.

\* A2AClient.initialize: connect, subscribe both channels, start the inbound loop
ClientInitialize(a) ==
    /\ a2a_client[a] = "none"
    /\ a2a_client' = [a2a_client EXCEPT ![a] = "up"]
    /\ UNCHANGED <<inbox, handlers, running, memory, tasks, requests, loop,
                   call, nextId, injected, last, firstResp, executed, appvars,
                   lifevars, lost, gateway>>

\* the message kind the application uses
ApplicationKinds == {"status_update"}

\* the first handler registered for a message type kept
register_handler_KeepFirst(hs, message_type, handler) ==
    IF message_type \in DOMAIN hs
    THEN hs
    ELSE [k \in DOMAIN hs \cup {message_type} |->
             IF k = message_type THEN handler ELSE hs[k]]

\* self.handlers[message_type] = handler
register_handler(hs, message_type, handler) ==
    [k \in DOMAIN hs \cup {message_type} |->
        IF k = message_type THEN handler ELSE hs[k]]

RegisterHandler(a, message_type, handler) ==
    /\ handlers' = [handlers EXCEPT ![a] = register_handler(@, message_type, handler)]
    /\ registered' =
          [registered EXCEPT ![a] =
              [k \in DOMAIN @ \cup {message_type} |->
                  IF k # message_type THEN @[k] ELSE handler]]
    /\ UNCHANGED <<inbox, a2a_client, running, memory, tasks, requests, loop,
                   call, nextId, injected, last, firstResp, executed, api, ran,
                   check,
                   lifevars, lost, gateway>>

\* the envelopes the application of agent a builds: sender and timestamp
\* both filled in or both left empty, addressed to another agent or to "*"
Envelopes(a) ==
    { A2AMessage(st[1], r, k, st[2], CapsPayload(NoCaps), FALSE) :
        st \in {<<"", NoTimestamp>>, <<a, UtcNow>>},
        r \in (Agents \ {a}) \cup {"*"}, k \in ApplicationKinds }

\* broadcast_message: message.recipient_id = "*"
ForceBroadcast(m) == [m EXCEPT !.recipient_id = "*"]

\* A2AClient.send_message on a connected client
send_message(a, m) ==
    LET out == prepare_message(a, m)
        targets == Subscribers(a2a_client, TargetChannel(out))
    IN  /\ HasRoom(inbox, targets)
        /\ inbox' = Publish(inbox, targets, out)

Called(a, op, m) == [calls |-> api.calls + 1, by |-> a, op |-> op, arg |-> m]

SendMessage(a, m) ==
    /\ api.calls < MaxSends
    /\ a2a_client[a] = "up"
    /\ send_message(a, m)
    /\ api' = Called(a, "send_message", m)
    /\ UNCHANGED <<a2a_client, handlers, running, memory, tasks, requests, loop,
                   call, nextId, injected, last, firstResp, executed, ran, check,
                   registered,
                   lifevars, lost, gateway>>

\* A2AClient.broadcast_message
BroadcastMessage(a, m) ==
    /\ api.calls < MaxSends
    /\ a2a_client[a] = "up"
    /\ send_message(a, ForceBroadcast(m))
    /\ api' = Called(a, "broadcast_message", m)
    /\ UNCHANGED <<a2a_client, handlers, running, memory, tasks, requests, loop,
                   call, nextId, injected, last, firstResp, executed, ran, check,
                   registered,
                   lifevars, lost, gateway>>

\* SecurityContext.check_rate_limit(agent_id) called on the context of agent a
CheckRateLimit(a, agent_id) ==
    /\ requests' = [requests EXCEPT ![a] = is_allowed_requests(@, agent_id)]
    /\ check' = [odd |-> ~check.odd, by |-> a, identifier |-> agent_id,
                 result |-> is_allowed(requests[a], agent_id),
                 refused |-> IF is_allowed(requests[a], agent_id)
                             THEN check.refused
                             ELSE check.refused \cup {<<a, agent_id>>}]
    /\ UNCHANGED <<inbox, a2a_client, handlers, running, memory, tasks, loop,
                   call, nextId, injected, last, firstResp, executed, api, ran,
                   registered,
                   lifevars, lost, gateway>>

\* ---------------------------------------------------------------- life cycle
\* Agent.initialize and Agent.shutdown one await at a time, on a transport
\* that can become unreachable. a2a_client[a] tells how far the A2AClient of
\* agent a has come:
\*   "none"          Agent.a2a_client is None
\*   "created"       redis_client set by from_url, pubsub None
\*   "unsubscribed"  pubsub set, subscribe not done
\*   "up"            subscribed, _running true, _listen_task running
\*   "down"          shutdown has cleared _running and cancelled _listen_task
has_redis_client(st) == st # "none"

has_pubsub(st) == st \in {"unsubscribed", "up", "down"}

client_running(st) == st = "up"

\* A2AClient.is_connected, false as well when the Agent has no client
is_connected(st) == client_running(st) /\ has_redis_client(st)

\* the except clause that logs and lets initialize return normally
InitFailed_Swallowed(lf) == [lf EXCEPT !.init = "returned"]

\* the except clauses of initialize: log and raise
InitFailed(lf) == [lf EXCEPT !.init = "raised"]

\* Agent.initialize up to the await of ping: the A2AClient is constructed
\* and redis.from_url has made the redis_client
InitConnect(a) ==
    /\ life[a].init = "none"
    /\ a2a_client[a] = "none"
    /\ a2a_client' = [a2a_client EXCEPT ![a] = "created"]
    /\ life' = [life EXCEPT ![a] = [init |-> "ping", shutdown |-> "none"]]
    /\ UNCHANGED <<inbox, handlers, running, memory, tasks, requests, loop,
                   call, nextId, injected, last, firstResp, executed, appvars,
                   reachable, lost, gateway>>

\* ping answers and the pubsub is made, up to the await of subscribe; or
\* ping raises
InitPing(a) ==
    /\ life[a].init = "ping"
    /\ IF reachable
       THEN /\ a2a_client' = [a2a_client EXCEPT ![a] = "unsubscribed"]
            /\ life' = [life EXCEPT ![a].init = "subscribe"]
       ELSE /\ life' = [life EXCEPT ![a] = InitFailed(@)]
            /\ UNCHANGED a2a_client
    /\ UNCHANGED <<inbox, handlers, running, memory, tasks, requests, loop,
                   call, nextId, injected, last, firstResp, executed, appvars,
                   reachable, lost, gateway>>

\* subscribe returns: the client sets _running and starts the inbound
\* loop, the MCP client is made (its initialize never raises), the handlers
\* are registered and the announcement is built, up to the await of publish;
\* or subscribe raises
InitSubscribe(a) ==
    /\ life[a].init = "subscribe"
    /\ IF reachable
       THEN /\ a2a_client' = [a2a_client EXCEPT ![a] = "up"]
            /\ handlers' = [handlers EXCEPT ![a] = RegisteredHandlers]
            /\ registered' = [registered EXCEPT ![a] = RegisteredHandlers]
            /\ life' = [life EXCEPT ![a].init = "announce"]
       ELSE /\ life' = [life EXCEPT ![a] = InitFailed(@)]
            /\ UNCHANGED <<a2a_client, handlers, registered>>
    /\ UNCHANGED <<inbox, running, memory, tasks, requests, loop, call, nextId,
                   injected, last, firstResp, executed, api, ran, check,
                   reachable, lost, gateway>>

\* publish of the announcement returns and the agent is marked live; or
\* publish raises
InitAnnounce(a) ==
    /\ life[a].init = "announce"
    /\ IF reachable
       THEN LET m == Announcement(a)
                targets == Subscribers(a2a_client, TargetChannel(m))
            IN  /\ HasRoom(inbox, targets)
                /\ inbox' = Publish(inbox, targets, m)
                /\ running' = [running EXCEPT ![a] = TRUE]
                /\ life' = [life EXCEPT ![a].init = "returned"]
       ELSE /\ life' = [life EXCEPT ![a] = InitFailed(@)]
            /\ UNCHANGED <<inbox, running>>
    /\ UNCHANGED <<a2a_client, handlers, memory, tasks, requests, loop, call,
                   nextId, injected, last, firstResp, executed, appvars,
                   reachable, lost, gateway>>

\* A2AClient.shutdown: _running = False and the inbound loop cancelled
ClientAfterShutdown(st) == IF st = "up" THEN "down" ELSE st

\* pubsub.unsubscribe() needs the server; nothing in A2AClient.shutdown or
\* Agent.shutdown catches what it raises
ShutdownRaises(st, server_up) == has_pubsub(st) /\ ~server_up

\* Agent.shutdown, called when no initialize is in progress. Cancelling the
\* inbound loop inside execute_task runs the finally clause of
\* _handle_task_request; the subscription and what it holds are given up.
Shutdown(a) ==
    /\ life[a].init \in {"none", "returned", "raised"}
    /\ running' = [running EXCEPT ![a] = FALSE]
    /\ a2a_client' = [a2a_client EXCEPT ![a] = ClientAfterShutdown(@)]
    /\ IF a2a_client[a] = "up"
       THEN /\ loop' = [loop EXCEPT ![a] = [pc |-> "idle", msg |-> NoMessage]]
            /\ tasks' = [tasks EXCEPT ![a] = discard(@, loop[a].msg.payload.task_id)]
            /\ inbox' = [inbox EXCEPT ![a] = <<>>]
       ELSE UNCHANGED <<loop, tasks, inbox>>
    /\ life' = [life EXCEPT ![a].shutdown =
                    IF ShutdownRaises(a2a_client[a], reachable)
                    THEN "raised" ELSE "returned"]
    /\ UNCHANGED <<handlers, memory, requests, call, nextId, injected, last,
                   firstResp, executed, appvars, reachable, lost, gateway>>

\* the Redis server goes away or comes back
TransportChange ==
    /\ reachable' = ~reachable
    /\ UNCHANGED <<inbox, a2a_client, handlers, running, memory, tasks,
                   requests, loop, call, nextId, injected, last, firstResp,
                   executed, appvars, life, lost, gateway>>

\* ---------------------------------------------------------------- gateway
\* api_server.py: the registry of agents and the table of submitted tasks.
\* What an agent does on the bus is no part of it: initialize and shutdown
\* succeed or raise, execute_task returns, raises or outlasts the timeout.

\* the agent ids clients ask for
GatewayIds == {"calc-1", "echo-1"}

KnownTypes == {"calculator", "echo", "file_processor"}

\* the agent types clients ask for
RequestedTypes == KnownTypes \cup {"planner"}

\* agent.capabilities of the agent classes create_agent instantiates
TypeCapabilities(agent_type) ==
    CASE agent_type = "calculator" -> {"add", "subtract", "multiply", "divide"}
      [] agent_type = "echo" -> {"echo", "uppercase", "reverse"}
      [] agent_type = "file_processor" ->
             {"read_file", "write_file", "analyze_csv", "list_directory",
              "count_words"}
      [] OTHER -> {}

\* the task types clients ask for
GatewayTaskTypes == {"add", "echo"}

Answer(op, status, agent_id, agent_type, task_id) ==
    [odd |-> ~http.odd, op |-> op, status |-> status, agent_id |-> agent_id,
     agent_type |-> agent_type, task_id |-> task_id]

\* "except Exception as e: raise HTTPException(status_code=500, ...)": what
\* is raised inside the try block of create_agent, an HTTPException
\* included, is answered with 500
ExceptClause(raised) == 500

\* the status create_agent answers with; the test for the agent type and
\* the call of initialize are inside the try block
create_agent_status(agents, agent_id, agent_type, init_ok) ==
    IF agent_id \in DOMAIN agents THEN 400
    ELSE IF agent_type \notin KnownTypes THEN ExceptClause(400)
    ELSE IF ~init_ok THEN ExceptClause(500)
    ELSE 200

\* POST /agents with an agent id given
CreateAgent(agent_id, agent_type, init_ok) ==
    LET status == create_agent_status(active_agents, agent_id, agent_type, init_ok)
    IN  /\ active_agents' =
               IF status = 200
               THEN [k \in DOMAIN active_agents \cup {agent_id} |->
                        IF k = agent_id THEN agent_type ELSE active_agents[k]]
               ELSE active_agents
        /\ http' = Answer("create_agent", status, agent_id, agent_type, 0)
        /\ UNCHANGED <<task_results, jobs, busvars>>

\* DELETE /agents/{agent_id}
DeleteAgent(agent_id, shutdown_ok) ==
    LET status == IF agent_id \notin DOMAIN active_agents THEN 404
                  ELSE IF ~shutdown_ok THEN 500 ELSE 200
    IN  /\ active_agents' =
               IF status = 200
               THEN [k \in DOMAIN active_agents \ {agent_id} |-> active_agents[k]]
               ELSE active_agents
        /\ http' = Answer("delete_agent", status, agent_id, "", 0)
        /\ UNCHANGED <<task_results, jobs, busvars>>

\* the TaskResponse model of the gateway
GatewayResponse(status, result, error) ==
    [status |-> status, result |-> result, error |-> error]

\* str(uuid.uuid4()): an id not used before
NewTaskId == Cardinality(DOMAIN task_results) + 1

\* POST /tasks: the background task is added, "pending" is recorded and
\* answered; the background task starts once the answer is sent
SubmitTask(agent_id, task_type) ==
    IF agent_id \notin DOMAIN active_agents
    THEN /\ http' = Answer("submit_task", 404, agent_id, "", 0)
         /\ UNCHANGED <<active_agents, task_results, jobs, busvars>>
    ELSE IF task_type \notin TypeCapabilities(active_agents[agent_id])
    THEN /\ http' = Answer("submit_task", 400, agent_id, "", 0)
         /\ UNCHANGED <<active_agents, task_results, jobs, busvars>>
    ELSE /\ Cardinality(DOMAIN task_results) < MaxTasks
         /\ jobs' = [k \in DOMAIN jobs \cup {NewTaskId} |->
                        IF k = NewTaskId THEN "queued" ELSE jobs[k]]
         /\ task_results' =
                [k \in DOMAIN task_results \cup {NewTaskId} |->
                    IF k = NewTaskId THEN GatewayResponse("pending", "", "")
                    ELSE task_results[k]]
         /\ http' = Answer("submit_task", 200, agent_id, "", NewTaskId)
         /\ UNCHANGED <<active_agents, busvars>>

\* execute_task_async up to the await of execute_task under wait_for
RunJob(task_id) ==
    /\ task_id \in DOMAIN jobs
    /\ jobs[task_id] = "queued"
    /\ jobs' = [jobs EXCEPT ![task_id] = "running"]
    /\ UNCHANGED <<active_agents, task_results, http, busvars>>

\* wait_for gave up
TimedOut == "timed out"

\* the record left as it is when execute_task raises
JobResult_Unhandled(outcome) ==
    IF outcome \in Results THEN GatewayResponse("completed", outcome, "")
    ELSE IF outcome = TimedOut
    THEN GatewayResponse("timeout", "", "Task timed out")
    ELSE GatewayResponse("pending", "", "")

\* the record execute_task_async stores: the result, or what its two
\* except clauses make of asyncio.TimeoutError and of any other exception
JobResult(outcome) ==
    IF outcome \in Results THEN GatewayResponse("completed", outcome, "")
    ELSE IF outcome = TimedOut
    THEN GatewayResponse("timeout", "", "Task timed out")
    ELSE GatewayResponse("failed", "", outcome)

\* execute_task returned or raised, or wait_for gave up: the rest of
\* execute_task_async
EndJob(task_id, outcome) ==
    /\ task_id \in DOMAIN jobs
    /\ jobs[task_id] = "running"
    /\ jobs' = [jobs EXCEPT ![task_id] = "done"]
    /\ task_results' = [task_results EXCEPT ![task_id] = JobResult(outcome)]
    /\ UNCHANGED <<active_agents, http, busvars>>

\* ---------------------------------------------------------------- environment
\* the sender ids a party other than the agents can put on an envelope: its
\* own, or the broadcast address
ClaimedSenders == {Outsider, "*"}

\* the payloads of the envelopes published from outside: a request for "add"
\* without a task id, and, under the outsider's own id, a response for a task
\* id already issued or for none
InjectKinds(s) ==
    {<<"task_request", RequestPayload(NoId, "add")>>}
    \cup { <<"task_response", ResponsePayload(id, TRUE, "r2", "")>> :
              id \in IF s = Outsider THEN 0..nextId ELSE {} }

\* What a party other than the agents can publish on an agent's channel:
\* bytes that do not parse, and envelopes that claim the outsider or "*" as
\* sender, unsigned or with a signature made up.
InjectSet ==
    {Garbage} \cup
    UNION { { [A2AMessage(s, r, k[1], UtcNow, k[2], FALSE) EXCEPT !.signature = sg] :
                r \in Agents, k \in InjectKinds(s),
                sg \in {NoSignature, ForgedSignature} } :
            s \in ClaimedSenders }

Inject(a, m) ==
    /\ injected < MaxInject
    /\ a2a_client[a] = "up"
    /\ m.message_type = "garbage" \/ m.recipient_id = a
    /\ Len(inbox[a]) < MaxInbox
    /\ inbox' = [inbox EXCEPT ![a] = Append(@, m)]
    /\ injected' = injected + 1
    /\ UNCHANGED <<a2a_client, handlers, running, memory, tasks, requests,
                   loop, call, nextId, last, firstResp, executed, appvars,
                   lifevars, lost, gateway>>

\* a signed TaskResponse altered on its way: the result is replaced, the
\* signature kept
Tampered(m) == [m EXCEPT !.payload.result = "tampered"]

Tamper(a, i) ==
    /\ injected < MaxInject
    /\ i \in DOMAIN inbox[a]
    /\ inbox[a][i].message_type = "task_response"
    /\ GenuineSignature(inbox[a][i])
    /\ inbox' = [inbox EXCEPT ![a][i] = Tampered(@)]
    /\ injected' = injected + 1
    /\ UNCHANGED <<a2a_client, handlers, running, memory, tasks, requests,
                   loop, call, nextId, last, firstResp, executed, appvars,
                   lifevars, lost, gateway>>

\* ---------------------------------------------------------------- time
Min(x, y) == IF x < y THEN x ELSE y

Max(x, y) == IF x > y THEN x ELSE y

\* A stored timestamp one tick later; past the window its age no longer matters.
Older(ages) == [i \in DOMAIN ages |-> Min(ages[i] + 1, WindowTicks)]

\* A waiting call one tick later; past the timeout the elapsed time no longer
\* matters.
Later(rec) ==
    IF rec.pc = "wait"
    THEN [rec EXCEPT !.elapsed = Min(@ + 1, rec.timeout),
                     !.sleep = Max(@ - 1, 0)]
    ELSE rec

\* a coroutine whose sleep is over is resumed before the clock moves on
SleepOver(c) == call[c].pc = "wait" /\ call[c].sleep = 0

Tick ==
    /\ \A c \in Calls : ~SleepOver(c)
    /\ call' = [c \in Calls |-> Later(call[c])]
    /\ requests' = [a \in Agents |-> [s \in DOMAIN requests[a] |-> Older(requests[a][s])]]
    /\ UNCHANGED <<inbox, a2a_client, handlers, running, memory, tasks,
                   loop, nextId, injected, last, firstResp, executed, appvars,
                   lifevars, lost, gateway>>

Next ==
    \/ \E a \in Agents : Initialize(a)
    \/ \E a \in Agents, r \in Agents, t \in TaskTypes : StartCallUninitialized(a, r, t)
    \/ \E a \in Agents, r \in Agents, t \in TaskTypes : StartCall(a, r, t)
    \/ \E c \in Calls : Poll(c)
    \/ \E a \in Agents : Listen(a)
    \/ \E a \in Agents, outcome \in Results \cup {ExecError} : FinishTask(a, outcome)
    \/ \E a \in Agents, m \in InjectSet : Inject(a, m)
    \/ \E a \in Agents, i \in 1..MaxInbox : Tamper(a, i)
    \/ Tick

Spec == Init /\ [][Next]_vars

\* input the inbound loop must refuse: bytes that do not parse, and an
\* envelope without a signature
BadInput ==
    {m \in InjectSet : m.message_type = "garbage"
                        \/ (m.sender_id = Outsider /\ m.signature = NoSignature
                             /\ m.message_type = "task_request")}

\* The agents on a message bus on which the publish of a task's response may
\* raise.
NextFaulty ==
    \/ Next
    \/ \E a \in Agents, outcome \in Results \cup {ExecError}, again \in BOOLEAN :
           FinishTaskPublishFails(a, outcome, again)

SpecFaulty == Init /\ [][NextFaulty]_vars

\* The agents when execute_task may itself call send_task_to_agent and
\* await the answer.
NextNested ==
    \/ Next
    \/ \E a \in Agents, r \in Agents, t \in TaskTypes : StartCallInside(a, r, t)

SpecNested == Init /\ [][NextNested]_vars

\* responses published from outside with a signature made up
OutsideResponses ==
    {m \in InjectSet : m.message_type = "task_response"
                        /\ m.signature = ForgedSignature}

\* the agent whose application makes the calls
Caller == "b"

\* The agents when the application of one of them has several
\* send_task_to_agent calls to the other in flight at once, and a party
\* outside answers as well.
NextConcurrent ==
    \/ \E a \in Agents : Initialize(a)
    \/ \E r \in Agents \ {Caller}, t \in TaskTypes : StartCallConcurrent(Caller, r, t)
    \/ \E c \in Calls : Poll(c)
    \/ \E a \in Agents : Listen(a)
    \/ \E a \in Agents, outcome \in Results \cup {ExecError} : FinishTask(a, outcome)
    \/ \E m \in OutsideResponses : Inject(Caller, m)
    \/ Tick

SpecConcurrent == Init /\ [][NextConcurrent]_vars

\* The A2AClient under an application that uses it directly, and the parties
\* outside.
NextClient ==
    \/ \E a \in Agents : ClientInitialize(a)
    \/ \E a \in Agents, k \in ApplicationKinds, h \in ApplicationHandlers :
           RegisterHandler(a, k, h)
    \/ \E a \in Agents : \E m \in Envelopes(a) : SendMessage(a, m)
    \/ \E a \in Agents : \E m \in Envelopes(a) : BroadcastMessage(a, m)
    \/ \E a \in Agents : Listen(a)
    \/ \E a \in Agents, m \in BadInput : Inject(a, m)
    \/ Tick

SpecClient == Init /\ [][NextClient]_vars

\* requests published from outside, unsigned or with a signature made up
OutsideRequests ==
    {m \in InjectSet : m.message_type = "task_request" /\ m.sender_id = Outsider}

\* execute_task ends while the server may be away: the publish of the
\* response goes through when the server answers and raises when not
FinishTaskOnTransport(a, outcome) ==
    IF reachable THEN FinishTask(a, outcome)
    ELSE FinishTaskPublishFails(a, outcome, TRUE)

\* Agents brought up and shut down one await at a time while the server
\* comes and goes; messages are handed over only while it answers.
NextLife ==
    \/ \E a \in Agents : InitConnect(a)
    \/ \E a \in Agents : InitPing(a)
    \/ \E a \in Agents : InitSubscribe(a)
    \/ \E a \in Agents : InitAnnounce(a)
    \/ \E a \in Agents : Shutdown(a)
    \/ TransportChange
    \/ \E a \in Agents : reachable /\ Listen(a)
    \/ \E a \in Agents, outcome \in Results \cup {ExecError} :
           FinishTaskOnTransport(a, outcome)
    \/ \E a \in Agents, m \in OutsideRequests : reachable /\ Inject(a, m)
    \/ Tick

SpecLife == Init /\ [][NextLife]_vars

\* The gateway under its clients, with its background tasks.
NextGateway ==
    \/ \E id \in GatewayIds, t \in RequestedTypes, init_ok \in BOOLEAN :
           CreateAgent(id, t, init_ok)
    \/ \E id \in GatewayIds, shutdown_ok \in BOOLEAN : DeleteAgent(id, shutdown_ok)
    \/ \E id \in GatewayIds, t \in GatewayTaskTypes : SubmitTask(id, t)
    \/ \E t \in 1..MaxTasks : RunJob(t)
    \/ \E t \in 1..MaxTasks, outcome \in Results \cup {ExecError, TimedOut} :
           EndJob(t, outcome)

SpecGateway == Init /\ [][NextGateway]_vars

\* the event loop runs every background task that was added
SpecGatewayFair ==
    SpecGateway
    /\ \A t \in 1..MaxTasks :
          /\ WF_vars(RunJob(t))
          /\ WF_vars(\E outcome \in Results \cup {ExecError, TimedOut} :
                         EndJob(t, outcome))

\* the security context whose rate limiter is exercised alone
LimiterOwner == "a"

\* The rate limiter of one security context, called for any sender as time
\* passes.
NextLimiter ==
    \/ \E s \in Senders : CheckRateLimit(LimiterOwner, s)
    \/ Tick

SpecLimiter == Init /\ [][NextLimiter]_vars


\* The clock advances, and the event loop resumes a coroutine whose sleep is over.
SpecFair == Spec /\ WF_vars(Tick) /\ \A c \in Calls : WF_vars(Poll(c))

SpecNestedFair ==
    SpecNested /\ WF_vars(Tick) /\ \A c \in Calls : WF_vars(Poll(c))

\* ================================================================ claims
Finished(c) == call[c].pc \in {"returned", "timeout"}

\* agent a's inbound loop takes the head of its inbox in this step
Takes(a) == Len(inbox'[a]) < Len(inbox[a])

\* C1: when several TaskResponses for the task id of a call are handled by
\* the caller's agent, the value the call returns is that of the first one
\* handled.
C1_FirstResponseWins ==
    \A c \in Calls :
        call[c].pc = "returned" => call[c].ret = firstResp[c].payload

\* C2: a call whose agent handled a TaskResponse for its task id before
\* timeout had elapsed since the request was sent does not raise TimeoutError.
C2_ResponseInTimeIsReturned ==
    \A c \in Calls :
        (firstResp[c].handled /\ firstResp[c].at < call[c].timeout)
            => call[c].pc # "timeout"

\* C3: a call raises TimeoutError only once timeout has elapsed since the
\* request was sent, and a waiting call for whose task id no TaskResponse is
\* ever handled eventually raises TimeoutError.
C3_TimeoutAtDeadline ==
    /\ \A c \in Calls : [](call[c].pc = "timeout" => call[c].elapsed >= call[c].timeout)
    /\ \A c \in Calls :
          (call[c].pc = "wait") ~> (call[c].pc = "timeout" \/ firstResp[c].handled)

C3_Witness ==
    \E c \in Calls :
        /\ call[c].pc = "timeout"
        /\ ~firstResp[c].handled
        /\ call[c].owner # call[c].recipient

\* C4: a call resolved by a TaskResponse with success=false raises instead of
\* returning normally, so every call that returns carries success=true.
C4_FailureRaises ==
    \A c \in Calls : call[c].pc = "returned" => call[c].ret.success

\* C5: an agent stores a response only under the task id of one of its own
\* calls that is still waiting: nothing is kept once the call has returned or
\* timed out, and nothing is stored for an unknown task id.
C5_EntryOnlyWhileWaiting ==
    \A a \in Agents : \A k \in DOMAIN memory[a] :
        k \in Calls /\ call[k].owner = a /\ call[k].pc = "wait"

\* C6: end to end, with nobody but the two agents publishing: when the
\* recipient executed the supported task with result r and the caller's
\* agent handled the response before the timeout, the finished call has
\* returned success with result r.
C6_EndToEnd ==
    \A c \in Calls :
        ( /\ Finished(c)
          /\ injected = 0
          /\ call[c].owner # call[c].recipient
          /\ executed[c] # ""
          /\ firstResp[c].handled
          /\ firstResp[c].at < call[c].timeout )
        => ( /\ call[c].pc = "returned"
             /\ call[c].ret.success
             /\ call[c].ret.result = executed[c] )

\* C7: a call of an initialized agent to itself, for a capability it
\* supports, does not end in TimeoutError.
C7_SelfCallReturns ==
    \A c \in Calls :
        ( /\ call[c].owner \in Agents
          /\ call[c].owner = call[c].recipient
          /\ Supported(call[c].owner, call[c].task_type) )
        => call[c].pc # "timeout"

\* C8: an inbound envelope that is the agent's own, carries no signature or
\* comes from an untrusted sender leaves the rate-limit table as it was, and
\* the table never has an entry for the agent's own id.
C8_GateOrder ==
    /\ [][\A a \in Agents :
            ( /\ Takes(a)
              /\ \/ Head(inbox[a]).sender_id = a
                 \/ Head(inbox[a]).signature.form # "value"
                 \/ ~is_trusted_agent(Head(inbox[a]).sender_id) )
            => requests'[a] = requests[a]]_vars
    /\ [](\A a \in Agents : a \notin DOMAIN requests[a])

C8_Witness ==
    \E a, b \in Agents :
        /\ last[a] = "own"
        /\ last[b] = "invalid"
        /\ requests[b] = <<>>

\* C9: a handler runs for an inbound envelope only if its sender is not the
\* receiving agent, it carries a signature, its sender is trusted and the
\* rate limiter accepted it, recording the acceptance.
C9_DispatchOnlyIfAccepted ==
    [][\A a \in Agents :
          ( /\ Takes(a)
            /\ \/ last'[a] = "dispatched"
               \/ memory'[a] # memory[a]
               \/ loop'[a].pc = "exec" )
          => ( /\ Head(inbox[a]).sender_id # a
               /\ Head(inbox[a]).signature.form = "value"
               /\ is_trusted_agent(Head(inbox[a]).sender_id)
               /\ is_allowed(requests[a], Head(inbox[a]).sender_id)
               /\ Head(inbox[a]).sender_id \in DOMAIN requests'[a]
               /\ requests'[a][Head(inbox[a]).sender_id] # <<>>
               /\ requests'[a][Head(inbox[a]).sender_id]
                     [Len(requests'[a][Head(inbox[a]).sender_id])] = 0 )]_vars

C9_Witness ==
    \E a \in Agents :
        /\ last[a] = "dispatched"
        /\ memory[a] # <<>>
        /\ \E s \in DOMAIN requests[a] : requests[a][s] # <<>>

\* C10: for every envelope in flight, verify_message_signature is true
\* exactly when the signature was made by sign_message with the claimed
\* sender's key over the envelope's current signed fields.
C10_VerifyIsGenuine ==
    \A a \in Agents : \A i \in DOMAIN inbox[a] :
        parse_raw_ok(inbox[a][i])
            => (verify_message_signature(inbox[a][i]) = GenuineSignature(inbox[a][i]))

\* C11: an inbound envelope whose sender_id is "*" is never dispatched to a
\* handler, and no TaskResponse or CapabilityResponse addressed to "*" is
\* ever published on the broadcast channel.
C11_StarNeverSender ==
    /\ [][\A a \in Agents :
            (Takes(a) /\ Head(inbox[a]).sender_id = "*")
                => last'[a] # "dispatched"]_vars
    /\ [](\A a \in Agents : \A i \in DOMAIN inbox[a] :
            inbox[a][i].recipient_id = "*"
                => inbox[a][i].message_type
                       \notin {"task_response", "capability_response"})

\* the application calls send_message or broadcast_message in this step
Sends == api'.calls = api.calls + 1

\* the subscription of agent r is handed one more message in this step
Grows(r) == Len(inbox'[r]) = Len(inbox[r]) + 1

Arrived(r) == inbox'[r][Len(inbox'[r])]

\* C12: every envelope that send_message publishes has a non-empty
\* sender_id, a non-empty timestamp and a signature, and the signature is
\* the sending client's over the sender, recipient, kind, timestamp and
\* payload that are transmitted.
C12_PublishedIsStampedAndSigned ==
    [][Sends =>
          \A r \in Agents :
              Grows(r) =>
                  /\ Arrived(r).sender_id # ""
                  /\ Arrived(r).timestamp # ""
                  /\ Arrived(r).signature.form = "value"
                  /\ Arrived(r).signature.signer = api'.by
                  /\ Arrived(r).signature.digest =
                         <<Arrived(r).sender_id, Arrived(r).recipient_id,
                           Arrived(r).message_type, Arrived(r).timestamp,
                           Arrived(r).payload>>]_vars

\* an envelope handed to send_message without sender and timestamp is in
\* flight, stamped with the sending agent's id
C12_Witness ==
    /\ api.op = "send_message"
    /\ api.arg.sender_id = ""
    /\ api.arg.timestamp = NoTimestamp
    /\ \E r \in Agents :
           /\ inbox[r] # <<>>
           /\ inbox[r][Len(inbox[r])].sender_id = api.by
           /\ inbox[r][Len(inbox[r])].message_type \in ApplicationKinds
           /\ inbox[r][Len(inbox[r])].signature.digest[1] = api.by

\* the recipient_id of the envelope the call of this step transmits
Addressee ==
    IF api'.op = "broadcast_message" THEN "*" ELSE api'.arg.recipient_id

\* C13: a call of send_message hands the envelope to the subscribers of
\* exactly one channel, the broadcast channel (every connected agent) if its
\* recipient_id is "*" and the recipient's own channel otherwise;
\* broadcast_message transmits it with recipient_id "*" whatever the
\* argument said; the call is over in that step and takes nothing from any
\* subscription.
C13_OneChannel ==
    [][Sends =>
          \A r \in Agents :
              IF a2a_client[r] = "up" /\ (Addressee = "*" \/ Addressee = r)
              THEN /\ Grows(r)
                   /\ inbox'[r] = Append(inbox[r], Arrived(r))
                   /\ Arrived(r).recipient_id = Addressee
                   /\ Arrived(r).message_type = api'.arg.message_type
                   /\ Arrived(r).payload = api'.arg.payload
              ELSE inbox'[r] = inbox[r]]_vars

\* a directly addressed envelope is in its recipient's subscription, and a
\* broadcast_message call whose argument named an agent has reached another
\* agent with recipient_id "*"
C13_Witness ==
    /\ api.op = "broadcast_message"
    /\ api.arg.recipient_id \in Agents
    /\ \E r \in Agents \ {api.by} :
           /\ Len(inbox[r]) = 2
           /\ inbox[r][1].recipient_id = r
           /\ inbox[r][1].sender_id = api.by
           /\ inbox[r][2].recipient_id = "*"
           /\ inbox[r][2].sender_id = api.by

\* C14: an envelope that agent x broadcasts is handed to every other agent
\* connected at that time; and when x's own inbound loop takes it, no
\* handler is invoked and nothing of x's state changes.
C14_BroadcastReachesOthersNotSelf ==
    /\ [][(Sends /\ api'.op = "broadcast_message") =>
              \A r \in Agents \ {api'.by} :
                  a2a_client[r] = "up" =>
                      /\ Grows(r)
                      /\ Arrived(r).sender_id = api'.by
                      /\ Arrived(r).recipient_id = "*"
                      /\ Arrived(r).payload = api'.arg.payload]_vars
    /\ [][\A x \in Agents :
              ( /\ Takes(x)
                /\ Head(inbox[x]).sender_id = x
                /\ Head(inbox[x]).recipient_id = "*" )
              => ( /\ last'[x] = "own"
                   /\ ran'[x] = ""
                   /\ handlers'[x] = handlers[x]
                   /\ requests'[x] = requests[x]
                   /\ memory'[x] = memory[x]
                   /\ tasks'[x] = tasks[x]
                   /\ loop'[x] = loop[x]
                   /\ a2a_client'[x] = a2a_client[x]
                   /\ running'[x] = running[x]
                   /\ \A r \in Agents \ {x} : inbox'[r] = inbox[r] )]_vars

\* x has broadcast once, its own loop has dropped the copy, and the copy of
\* another agent is in that agent's subscription
C14_Witness ==
    \E x \in Agents : \E r \in Agents \ {x} :
        /\ api = [calls |-> 1, by |-> x, op |-> "broadcast_message", arg |-> api.arg]
        /\ last[x] = "own"
        /\ inbox[x] = <<>>
        /\ inbox[r] # <<>>
        /\ inbox[r][1].sender_id = x
        /\ inbox[r][1].recipient_id = "*"

\* the timestamps RateLimiter._requests holds for identifier s in the context of a
Held(a, s) == IF s \in DOMAIN requests[a] THEN requests[a][s] ELSE <<>>

\* those of them that lie within the last window_seconds
Recent(a, s) == {i \in DOMAIN Held(a, s) : Held(a, s)[i] < WindowTicks}

C16_PerSender ==
    [][\A a \in Agents :
          Takes(a) =>
              LET m == Head(inbox[a])
                  s == m.sender_id
              IN  /\ ( /\ m.message_type \in MessageType
                       /\ s # a
                       /\ m.signature.form = "value"
                       /\ last'[a] = "invalid" )
                     => Cardinality(Recent(a, s)) >= MaxRequests
                  /\ \A t \in DOMAIN requests[a] \ {s} :
                        /\ t \in DOMAIN requests'[a]
                        /\ requests'[a][t] = requests[a][t]
                  /\ last'[a] = "invalid" => loop'[a].pc = "idle"]_vars

\* agent a has accepted, inside one window, an envelope of the other agent
\* and one of the outsider while the limit is one per sender
C16_Witness ==
    \E a \in Agents : \E b \in Agents \ {a} :
        /\ {b, Outsider} \subseteq DOMAIN requests[a]
        /\ Recent(a, b) # {}
        /\ Recent(a, Outsider) # {}
        /\ requests[a][Outsider][Len(requests[a][Outsider])] = 0

\* the inbound loop of a takes an envelope that passes every check
Accepts(a) ==
    /\ Takes(a)
    /\ Head(inbox[a]).message_type \in MessageType
    /\ Head(inbox[a]).sender_id # a
    /\ Head(inbox[a]).signature.form = "value"
    /\ Cardinality(Recent(a, Head(inbox[a]).sender_id)) < MaxRequests

\* C17: an accepted envelope of message type k invokes the handler passed to
\* the last register_handler call for k and no other; an accepted envelope
\* of a type for which register_handler was never called invokes nothing
\* and is dropped.
C17_LastRegistrationWins ==
    [][\A a \in Agents :
          Accepts(a) =>
              IF Head(inbox[a]).message_type \in DOMAIN registered[a]
              THEN /\ last'[a] = "dispatched"
                   /\ ran'[a] = registered[a][Head(inbox[a]).message_type]
              ELSE /\ last'[a] = "no_handler"
                   /\ ran'[a] = ""
                   /\ inbox' = [inbox EXCEPT ![a] = Tail(@)]
                   /\ UNCHANGED <<memory, tasks, loop, handlers>>]_vars

\* one agent has invoked the handler it registered last, and the other
\* agent has dropped an accepted envelope for whose type it has no handler
C17_Witness ==
    \E a \in Agents : \E b \in Agents \ {a} : \E k \in ApplicationKinds :
        /\ k \in DOMAIN registered[a]
        /\ last[a] = "dispatched"
        /\ ran[a] = registered[a][k]
        /\ last[b] = "no_handler"
        /\ ran[b] = ""
        /\ k \notin DOMAIN registered[b]

\* the message agent a took last was malformed or refused, or its handler raised
Survived(a) ==
    \/ last[a] \in {"parse_error", "invalid"}
    \/ (last[a] = "dispatched" /\ ran[a] = RaisingHandler)

\* C18: the inbound loop of a connected agent never ends on a malformed
\* message, a refused envelope or a handler that raises: it is still
\* running afterwards, and the next envelope that passes every check is
\* given to the handler registered for its type.
C18_LoopSurvives ==
    /\ [](\A a \in Agents : loop[a].pc \in {"idle", "exec"})
    /\ [][\A a \in Agents :
              (Survived(a) /\ Accepts(a)) =>
                  IF Head(inbox[a]).message_type \in DOMAIN handlers[a]
                  THEN /\ last'[a] = "dispatched"
                       /\ ran'[a] = handlers[a][Head(inbox[a]).message_type]
                  ELSE last'[a] = "no_handler"]_vars

\* the handler of agent a raised for the last message, the window has
\* elapsed, and the next envelope of the same sender is at the head of a's
\* subscription with a handler registered
C18_Witness ==
    \E a \in Agents :
        /\ last[a] = "dispatched"
        /\ ran[a] = RaisingHandler
        /\ loop[a].pc = "idle"
        /\ inbox[a] # <<>>
        /\ Head(inbox[a]).sender_id \in Agents \ {a}
        /\ Head(inbox[a]).signature.form = "value"
        /\ Recent(a, Head(inbox[a]).sender_id) = {}
        /\ Head(inbox[a]).message_type \in DOMAIN handlers[a]

\* the inbound loop of a gives a TaskRequest to Agent._handle_task_request
TakesRequest(a) ==
    /\ Accepts(a)
    /\ Head(inbox[a]).message_type = "task_request"
    /\ "task_request" \in DOMAIN handlers[a]
    /\ handlers[a]["task_request"] = "_handle_task_request"

\* the TaskResponse of a to request m with the given outcome, as transmitted
ResponseTo(a, m, success, result, error) ==
    LET fields == [sender_id |-> a, recipient_id |-> m.sender_id,
                   message_type |-> "task_response", timestamp |-> UtcNow,
                   payload |-> [task_id |-> m.payload.task_id, task_type |-> "",
                                success |-> success, result |-> result,
                                error |-> error, capabilities |-> {}],
                   requires_response |-> FALSE]
    IN  [sender_id |-> a, recipient_id |-> m.sender_id,
         message_type |-> "task_response", timestamp |-> UtcNow,
         payload |-> fields.payload, requires_response |-> FALSE,
         signature |-> [form |-> "value", signer |-> a,
                        digest |-> <<a, m.sender_id, "task_response", UtcNow,
                                     fields.payload>>]]

\* the connected agents an envelope addressed to s is handed to
Reached(s) == {r \in Agents : a2a_client[r] = "up" /\ (s = "*" \/ s = r)}

\* in this step a takes the head of its subscription and exactly the one
\* envelope resp is published
PublishesOnly(a, resp) ==
    \A r \in Agents :
        inbox'[r] =
            IF r \in Reached(resp.recipient_id)
            THEN Append(IF r = a THEN Tail(inbox[r]) ELSE inbox[r], resp)
            ELSE IF r = a THEN Tail(inbox[r]) ELSE inbox[r]

\* C19: a TaskRequest whose task_type is not among the receiving agent's
\* capabilities is answered, in the step that handles it, by exactly one
\* TaskResponse addressed to the request's sender, carrying the request's
\* task id, success=false and the error "Capability '<task_type>' not
\* supported"; execute_task is not entered and the active-task set stays as
\* it was.
C19_UnsupportedIsRefused ==
    [][\A a \in Agents :
          (TakesRequest(a) /\ Head(inbox[a]).payload.task_type \notin Capabilities[a])
          => /\ PublishesOnly(a,
                    ResponseTo(a, Head(inbox[a]), FALSE, "",
                        "Capability '" \o Head(inbox[a]).payload.task_type
                            \o "' not supported"))
             /\ loop'[a].pc = "idle"
             /\ tasks' = tasks
             /\ executed' = executed]_vars

\* the caller's agent holds, unhandled, the refusal of the other agent for
\* the task type of its call
C19_Witness ==
    \E c \in Calls :
        /\ call[c].owner \in Agents
        /\ call[c].recipient \in Agents \ {call[c].owner}
        /\ call[c].task_type \notin Capabilities[call[c].recipient]
        /\ tasks[call[c].recipient] = {}
        /\ executed[c] = ""
        /\ \E i \in DOMAIN inbox[call[c].owner] :
              /\ inbox[call[c].owner][i].message_type = "task_response"
              /\ inbox[call[c].owner][i].sender_id = call[c].recipient
              /\ inbox[call[c].owner][i].payload.task_id = c
              /\ ~inbox[call[c].owner][i].payload.success
              /\ inbox[call[c].owner][i].payload.error =
                     "Capability '" \o call[c].task_type \o "' not supported"

\* C20: a TaskResponse that the recipient of a call has signed for the
\* call's task id and that is on its way to the caller reflects what
\* execute_task did: with success=true it carries the result execute_task
\* returned, and with success=false for a supported task type execute_task
\* did not return normally; it is addressed to the caller.
C20_ResponseReflectsOutcome ==
    \A c \in Calls :
        (call[c].owner \in Agents /\ call[c].recipient \in Agents) =>
            \A r \in Agents : \A i \in DOMAIN inbox[r] :
                ( /\ inbox[r][i].message_type = "task_response"
                  /\ inbox[r][i].payload.task_id = c
                  /\ inbox[r][i].signature.form = "value"
                  /\ inbox[r][i].signature.signer = call[c].recipient
                  /\ inbox[r][i].signature.digest =
                         <<inbox[r][i].sender_id, inbox[r][i].recipient_id,
                           inbox[r][i].message_type, inbox[r][i].timestamp,
                           inbox[r][i].payload>> )
                => ( /\ r = call[c].owner
                     /\ inbox[r][i].recipient_id = call[c].owner
                     /\ inbox[r][i].payload.success
                            => executed[c] = inbox[r][i].payload.result
                     /\ ( /\ ~inbox[r][i].payload.success
                          /\ call[c].task_type \in Capabilities[call[c].recipient] )
                            => executed[c] = "" )

\* the announcement agent a broadcasts on initialize, as subscribers receive it
IsAnnouncementOf(a, m) ==
    /\ m.message_type = "capability_announcement"
    /\ m.sender_id = a
    /\ m.recipient_id = "*"
    /\ m.payload.capabilities = Capabilities[a]
    /\ m.requires_response = FALSE

\* C21: an agent is marked live only in the step in which the publish of
\* its CapabilityAnnouncement (requires_response = false) returns, when its
\* client is already connected and subscribed and its handlers are
\* registered; when the server does not answer at one of the awaits of
\* initialize, initialize raises to its caller, and an agent whose
\* initialize has raised is not live.
C21_LiveOnlyAfterAnnouncement ==
    /\ [][\A a \in Agents :
              (~running[a] /\ running'[a]) =>
                  /\ a2a_client[a] = "up"
                  /\ a2a_client'[a] = "up"
                  /\ DOMAIN handlers[a] =
                         {"task_request", "task_response", "capability_query"}
                  /\ life'[a].init = "returned"
                  /\ \A r \in Agents :
                        a2a_client[r] = "up" =>
                            Grows(r) /\ IsAnnouncementOf(a, Arrived(r))]_vars
    /\ [][\A a \in Agents :
              ( /\ life[a].init \in {"ping", "subscribe", "announce"}
                /\ life'[a].init # life[a].init
                /\ ~reachable )
              => (life'[a].init = "raised" /\ ~running'[a])]_vars
    /\ [](\A a \in Agents : life[a].init # "returned" => ~running[a])

\* one agent is live and its announcement is with the other agent, whose own
\* initialize raised at the publish of the announcement
C21_Witness ==
    \E a \in Agents : \E b \in Agents \ {a} :
        /\ running[a]
        /\ life[a].init = "returned"
        /\ life[b].init = "raised"
        /\ a2a_client[b] = "up"
        /\ ~running[b]
        /\ \E i \in DOMAIN inbox[b] : IsAnnouncementOf(a, inbox[b][i])

\* what agent b has kept of the capabilities other agents announced: the
\* payloads in its AgentMemory are all that an inbound envelope can leave
Observed(b) == {memory[b][k].capabilities : k \in DOMAIN memory[b]} \ {NoCaps}

\* C22: when the inbound loop of agent b accepts the CapabilityAnnouncement
\* of another agent a, a handler runs and b holds the announced capabilities
\* afterwards; when a's own loop takes a's announcement, what a holds stays
\* as it was.
C22_AnnouncementUpdatesPeers ==
    /\ [][\A b \in Agents :
              (Accepts(b) /\ Head(inbox[b]).message_type = "capability_announcement")
              => ( /\ last'[b] = "dispatched"
                   /\ Head(inbox[b]).payload.capabilities \in Observed(b)' )]_vars
    /\ [][\A a \in Agents :
              ( /\ Takes(a)
                /\ Head(inbox[a]).message_type = "capability_announcement"
                /\ Head(inbox[a]).sender_id = a )
              => (Observed(a)' = Observed(a) /\ memory'[a] = memory[a])]_vars

\* shutdown of agent a has been called, and initialize not since
ShutDown(a) == life[a].shutdown # "none"

\* what C23 says of an agent once shutdown is over
C23_Stopped ==
    /\ [](\A a \in Agents :
            ShutDown(a) =>
                /\ ~(a2a_client[a] = "up")
                /\ loop[a].pc = "idle"
                /\ tasks[a] = {}
                /\ ~running[a])
    /\ [][\A a \in Agents :
              (ShutDown(a) /\ ShutDown(a)') =>
                  /\ inbox'[a] = inbox[a]
                  /\ ran'[a] = ran[a]
                  /\ last'[a] = last[a]
                  /\ memory'[a] = memory[a]]_vars

\* C23: shutdown, called on an agent that was never initialized, whose
\* initialize raised part-way, that is running or that is already shut
\* down, does not raise; afterwards the client is not connected, the
\* inbound loop has stopped and no handler is invoked for the agent.
C23_ShutdownIsSafe ==
    /\ [](\A a \in Agents : life[a].shutdown # "raised")
    /\ C23_Stopped

\* C24: the active-task set of an agent holds exactly the task id of the
\* TaskRequest whose execute_task is running and is empty when none is: the
\* id is added in the step that begins execution of a supported request, a
\* refused request adds nothing, and the id is gone once the handler has
\* returned, whether execute_task returned or raised and whether the
\* response could be published or not.
C24_ActiveOnlyWhileExecuting ==
    /\ [](\A a \in Agents :
            tasks[a] = IF loop[a].pc = "exec"
                       THEN {loop[a].msg.payload.task_id} ELSE {})
    /\ [][\A a \in Agents :
              TakesRequest(a) =>
                  IF Head(inbox[a]).payload.task_type \in Capabilities[a]
                  THEN /\ loop'[a].pc = "exec"
                       /\ tasks'[a] = {Head(inbox[a]).payload.task_id}
                  ELSE tasks'[a] = {}]_vars
    /\ [][\A a \in Agents :
              (loop[a].pc = "exec" /\ loop'[a].pc = "idle") => tasks'[a] = {}]_vars

\* the publish of a success response raised, the failure response that
\* replaced it is on its way, and the agent's set is empty again
C24_Witness ==
    \E a \in Agents : \E r \in Agents : \E i \in DOMAIN inbox[r] :
        /\ inbox[r][i].message_type = "task_response"
        /\ inbox[r][i].sender_id = a
        /\ inbox[r][i].payload.error = "publish failed"
        /\ loop[a].pc = "idle"
        /\ tasks[a] = {}

\* is_allowed is called in this step
Checks == check'.odd # check.odd

\* C25: the list stored for a sender never holds more than max_requests
\* timestamps; right after a call of is_allowed for sender s every
\* timestamp stored for s is newer than now - window_seconds; and a call
\* that is refused leaves for s a subsequence of what was stored, with no
\* timestamp added.
C25_PrunedAndBounded ==
    /\ [](\A a \in Agents : \A s \in DOMAIN requests[a] :
            Len(requests[a][s]) <= MaxRequests)
    /\ [][Checks =>
              LET a == check'.by
                  s == check'.identifier
              IN  /\ s \in DOMAIN requests'[a]
                  /\ \A i \in DOMAIN requests'[a][s] :
                        requests'[a][s][i] < WindowTicks
                  /\ ~check'.result =>
                        /\ Len(requests'[a][s]) <= Len(Held(a, s))
                        /\ \A i \in DOMAIN requests'[a][s] :
                              \E j \in DOMAIN Held(a, s) :
                                  requests'[a][s][i] = Held(a, s)[j]]_vars

\* a call for one sender has just been refused with a full list of recent
\* timestamps, while the expired timestamp of another sender, not asked
\* about since, is still stored
C25_Witness ==
    /\ check.by \in Agents
    /\ ~check.result
    /\ Len(requests[check.by][check.identifier]) = MaxRequests
    /\ \A i \in DOMAIN requests[check.by][check.identifier] :
          requests[check.by][check.identifier][i] < WindowTicks
    /\ \E t \in DOMAIN requests[check.by] \ {check.identifier} :
          /\ requests[check.by][t] # <<>>
          /\ requests[check.by][t][1] = WindowTicks

\* C26: the inbound loop of an agent takes the envelopes of its
\* subscription one at a time from the head; while its TaskRequest handler
\* is inside execute_task it takes none, no handler runs and nothing is
\* stored for the agent; so a send_task_to_agent call that execute_task
\* awaits never returns a response, and ends in TimeoutError.
C26_OneHandlerAtATime ==
    /\ [][\A a \in Agents :
              Takes(a) =>
                  /\ loop[a].pc = "idle"
                  /\ SubSeq(inbox'[a], 1, Len(inbox[a]) - 1) = Tail(inbox[a])]_vars
    /\ [][\A a \in Agents :
              loop[a].pc = "exec" =>
                  /\ Len(inbox'[a]) >= Len(inbox[a])
                  /\ ran'[a] = ran[a]
                  /\ last'[a] = last[a]
                  /\ memory'[a] = memory[a]]_vars
    /\ [](\A c \in Calls : call[c].inside => call[c].pc # "returned")
    /\ \A c \in Calls :
          (call[c].inside /\ call[c].pc = "wait") ~> (call[c].pc = "timeout")

\* the call awaited by execute_task of its owner has timed out while the
\* response of the other agent, which executed the task, is still waiting
\* in the owner's subscription
C26_Witness ==
    \E c \in Calls :
        /\ call[c].inside
        /\ call[c].pc = "timeout"
        /\ call[c].owner \in Agents
        /\ loop[call[c].owner].pc = "exec"
        /\ executed[c] # ""
        /\ \E i \in DOMAIN inbox[call[c].owner] :
              /\ inbox[call[c].owner][i].message_type = "task_response"
              /\ inbox[call[c].owner][i].sender_id = call[c].recipient
              /\ inbox[call[c].owner][i].payload.task_id = c
              /\ inbox[call[c].owner][i].payload.success

\* C27: the rate limiter counts the envelopes of a sender whatever their
\* kind: an envelope of any kind, a TaskResponse included, that arrives when
\* max_requests envelopes of its sender were accepted within the window is
\* dropped without a handler and without being stored; and when the
\* response to a waiting call is dropped in this way, then, unless
\* somebody else answers for the recipient, the call does not return and
\* ends in TimeoutError although the recipient executed the task.
C27_ResponsesAreRateLimited ==
    /\ [][\A b \in Agents :
              ( /\ Takes(b)
                /\ Head(inbox[b]).message_type \in MessageType
                /\ Head(inbox[b]).sender_id # b
                /\ Cardinality(Recent(b, Head(inbox[b]).sender_id)) >= MaxRequests )
              => ( /\ last'[b] = "invalid"
                   /\ ran'[b] = ""
                   /\ memory'[b] = memory[b]
                   /\ loop'[b] = loop[b] )]_vars
    /\ [](\A c \in Calls :
            (lost[c] /\ injected = 0) => call[c].pc \in {"wait", "timeout"})
    /\ \A c \in Calls :
          (lost[c] /\ call[c].pc = "wait")
              ~> (call[c].pc = "timeout" \/ injected > 0)

\* the recipient executed the task and answered, the caller's agent dropped
\* the answer at the rate limiter, and the call has timed out
C27_Witness ==
    \E c \in Calls :
        /\ lost[c]
        /\ injected = 0
        /\ executed[c] # ""
        /\ call[c].pc = "timeout"
        /\ ~firstResp[c].handled
        /\ memory[call[c].owner] = <<>>

\* C28: every send_task_to_agent call publishes its request under a task id
\* that no earlier call of the run has used, and a call returns only a
\* response that carries the call's own task id, whichever of the
\* responses to the calls in flight is handled first.
C28_OwnResponseOnly ==
    /\ [][nextId' = nextId + 1 =>
              \A r \in Agents :
                  Grows(r) =>
                      /\ Arrived(r).message_type = "task_request"
                      /\ Arrived(r).payload.task_id \notin 0..nextId
                      /\ call[Arrived(r).payload.task_id].pc = "idle"
                      /\ call'[Arrived(r).payload.task_id].owner = Arrived(r).sender_id]_vars
    /\ [](\A c \in Calls : call[c].pc = "returned" => call[c].ret.task_id = c)
    /\ [](\A a \in Agents : \A k \in DOMAIN memory[a] : memory[a][k].task_id = k)

\* two calls of one agent were in flight together; the response to the
\* second was handled first and the second call has returned it, while the
\* first call is still waiting with nothing handled for it
C28_Witness ==
    \E c, d \in Calls :
        /\ c < d
        /\ call[c].owner = call[d].owner
        /\ call[c].pc = "wait"
        /\ ~firstResp[c].handled
        /\ call[d].pc = "returned"
        /\ call[d].ret.task_id = d
        /\ call[d].elapsed < call[c].elapsed

\* the three statuses a gateway task ends in
FinalStatus == {"completed", "timeout", "failed"}

\* C29: a task that submit_task accepts enters the gateway's table with
\* status "pending" under an id not in the table before; its record then
\* changes exactly once, to one of "completed", "timeout" and "failed", and
\* never afterwards; and every pending task is eventually given one of
\* these three statuses by its background execution.
C29_TaskLifecycle ==
    /\ [][\A t \in DOMAIN task_results' \ DOMAIN task_results :
              /\ task_results'[t].status = "pending"
              /\ http'.op = "submit_task"
              /\ http'.status = 200
              /\ http'.task_id = t]_vars
    /\ [][\A t \in DOMAIN task_results :
              /\ t \in DOMAIN task_results'
              /\ task_results[t].status \in FinalStatus
                    => task_results'[t] = task_results[t]
              /\ task_results[t].status = "pending"
                    => task_results'[t].status \in FinalStatus \cup {"pending"}]_vars
    /\ \A t \in 1..MaxTasks :
          (t \in DOMAIN task_results /\ task_results[t].status = "pending")
              ~> (t \in DOMAIN task_results /\ task_results[t].status \in FinalStatus)

\* of two tasks submitted, one has timed out and the other, submitted
\* later, has completed with a result
C29_Witness ==
    /\ DOMAIN task_results = {1, 2}
    /\ task_results[1].status = "timeout"
    /\ task_results[2].status = "completed"
    /\ task_results[2].result \in Results

\* a client of the gateway has called create_agent in this step
Creates == http'.odd # http.odd /\ http'.op = "create_agent"

\* C30: create_agent answers 400 when the agent id asked for is already
\* registered and when the agent type is none of the known ones; in both
\* cases, and whenever it does not answer 200 (initialize of the new agent
\* raised), the set of active agents is as before.
C30_CreateAgentRejects ==
    [][Creates =>
          /\ http'.agent_id \in DOMAIN active_agents
                => (http'.status = 400 /\ active_agents' = active_agents)
          /\ http'.agent_type \notin {"calculator", "echo", "file_processor"}
                => (http'.status = 400 /\ active_agents' = active_agents)
          /\ http'.status # 200 => active_agents' = active_agents]_vars

\* what C30 says of the set of active agents alone
C30_RegistryKept ==
    [][( /\ Creates
         /\ \/ http'.agent_id \in DOMAIN active_agents
            \/ http'.agent_type \notin {"calculator", "echo", "file_processor"}
            \/ http'.status # 200 )
       => active_agents' = active_agents]_vars

====
